---- MODULE Spec2Model ----
(***************************************************************************)
(* Model of simple_bot.py: the question store (whole-file load / save),    *)
(* the three ConversationHandlers registered in main() (create, clone,     *)
(* converted-poll edit), the poll-conversion handlers and the remove       *)
(* confirmation handled by button_callback.                                *)
(*                                                                         *)
(* Python values that may be None (dict.get results, JSON null) are        *)
(* modelled as sets with at most one element: {} is None, {v} is v.        *)
(* A text that the code parses is a sequence of one-character strings.     *)
(***************************************************************************)
EXTENDS Integers, Sequences, FiniteSets, TLC

\* ---------------------------------------------------------------- bounds
\* largest question id the model lets a create step assign
MaxId == 2
\* largest option index a pressed button carries (buttons stay in the chat)
MaxIndex == 2
\* number of updates (commands, messages, button presses) a behaviour handles
MaxEvents == 5
\* longest text (in characters) given to the options parser in SpecParse
MaxTextLen == 5
\* largest question id the store operations of SpecStore assign
MaxStoreId == 6
\* the answers counted for one user in the checks of update_user_stats
MaxTotal == 4

\* ------------------------------------------------------- optional values
None == {}
Some(v) == {v}
Val(m) == CHOOSE v \in m : TRUE

\* ------------------------------------------- conversation state constants
QUESTION == 0
OPTIONS == 1
ANSWER == 2
EDIT_SELECT == 3
\* the values at the time main() registers the handlers (second assignment)
EDIT_QUESTION == 5
EDIT_OPTIONS == 6
EDIT_ANSWER == 7
CLONE_URL == 7
CLONE_MANUAL == 8
\* ConversationHandler.END; also stands for "no conversation for this key"
END == -1

\* ------------------------------------------------------------ input sets
Users == {"u1"}
\* the chats a user can send /play in (a private chat and a group)
Chats == {"c1", "c2"}
\* the display names a responder can carry (answer.user.name)
Names == {"n1", "n2"}
\* two sessions whose edit handlers run at the same time
Sessions == {"s1", "s2"}
\* the Telegram users who can answer a poll the bot sent
Responders == {"u1", "u2"}
QuestionTexts == {"q1", "q2"}
NL == "\n"
SP == " "
Chars == {"a", "b", SP, NL}
\* every text of at most MaxTextLen characters
ParseTexts == UNION {[1..n -> Chars] : n \in 0..MaxTextLen}
\* texts a user sends in the options step: two options, three options with
\* padding and a blank line, and a single option followed by a blank line
OptionTexts ==
  { <<"a", NL, "b">>,
    <<SP, "a", NL, NL, "b", SP, NL, "c">>,
    <<"a", NL, SP>> }
Urls == {"https://t.me/c/1"}
\* what parse_telegram_quiz_url can return besides None: every return path
\* checks len(options) >= 2 (a Telegram poll has at least two options)
ImportDrafts == { [question |-> "imported", options |-> << <<"x">>, <<"y">> >>] }
\* a forwarded native poll (a Telegram poll carries at least two options)
ForwardedPolls == { [question |-> "polled", options |-> << <<"x">>, <<"y">> >>] }

\* ------------------------------------------------------- options parsing
\* str.split('\n'): the pieces between the newline characters
RECURSIVE SplitLines(_)
SplitLines(text) ==
  IF \A k \in DOMAIN text : text[k] # NL THEN << text >>
  ELSE LET k == CHOOSE j \in DOMAIN text :
                  text[j] = NL /\ \A h \in 1..(j-1) : text[h] # NL
       IN  << SubSeq(text, 1, k-1) >> \o SplitLines(SubSeq(text, k+1, Len(text)))

\* mutant: only the leading whitespace is removed
RECURSIVE StripLeadingOnly(_)
StripLeadingOnly(s) ==
  IF s = <<>> THEN s
  ELSE IF Head(s) = SP THEN StripLeadingOnly(Tail(s))
  ELSE s

\* str.strip(): leading and trailing whitespace removed
RECURSIVE Strip(_)
Strip(s) ==
  IF s = <<>> THEN s
  ELSE IF Head(s) = SP THEN Strip(Tail(s))
  ELSE IF s[Len(s)] = SP THEN Strip(SubSeq(s, 1, Len(s)-1))
  ELSE s

\* [opt.strip() for opt in lines]
StripAll(lines) == [k \in DOMAIN lines |-> Strip(lines[k])]

NonBlank(opt) == Strip(opt) # <<>>

\* mutant: blank lines are kept
ParseOptionsKeepBlank(options_text) ==
  StripAll(SplitLines(options_text))

\* get_options: [opt.strip() for opt in options_text.split('\n') if opt.strip()]
ParseOptions(options_text) ==
  StripAll(SelectSeq(SplitLines(options_text), NonBlank))

\* mutant: the lines are not trimmed
ParseNewOptionsUntrimmed(new_options_text) ==
  SelectSeq(SplitLines(new_options_text), NonBlank)

\* handle_edit_options: the same comprehension over new_options_text
ParseNewOptions(new_options_text) ==
  StripAll(SelectSeq(SplitLines(new_options_text), NonBlank))

\* --------------------------------------------------------- question store
SeedQuestions ==
  << [id |-> 1, question |-> Some("What is the capital of France?"),
      options |-> Some(<< <<"Berlin">>, <<"Madrid">>, <<"Paris">>, <<"Rome">> >>),
      answer |-> 2, category |-> "Geography"],
     [id |-> 2, question |-> Some("Which planet is known as the Red Planet?"),
      options |-> Some(<< <<"Venus">>, <<"Mars">>, <<"Jupiter">>, <<"Saturn">> >>),
      answer |-> 1, category |-> "Science"] >>

\* json.dump of the list of question dicts: every value becomes a JSON value,
\* None becomes null
JsonMaybe(tag, v) == IF v = None THEN << "null" >> ELSE << tag, Val(v) >>

\* mutant: the answer is written one-based and read back as it is
JsonDumpOneBased(questions) ==
  [k \in DOMAIN questions |->
     [id |-> << "number", questions[k].id >>,
      question |-> JsonMaybe("string", questions[k].question),
      options |-> JsonMaybe("array", questions[k].options),
      answer |-> << "number", questions[k].answer + 1 >>,
      category |-> << "string", questions[k].category >>]]

json_dump(questions) ==
  [k \in DOMAIN questions |->
     [id |-> << "number", questions[k].id >>,
      question |-> JsonMaybe("string", questions[k].question),
      options |-> JsonMaybe("array", questions[k].options),
      answer |-> << "number", questions[k].answer >>,
      category |-> << "string", questions[k].category >>]]

\* json.load: null becomes None, every other JSON value its python value
PyMaybe(json) == IF json[1] = "null" THEN None ELSE Some(json[2])

json_load(text) ==
  [k \in DOMAIN text |->
     [id |-> text[k].id[2],
      question |-> PyMaybe(text[k].question),
      options |-> PyMaybe(text[k].options),
      answer |-> text[k].answer[2],
      category |-> text[k].category[2]]]

\* save_questions: the whole file is overwritten with the JSON text of the
\* list; the file is held as what json.load reads from that text
save_questions(questions) == Some(json_load(json_dump(questions)))

\* mutant: an empty store is seeded again
LoadSeedsWhenEmpty(file) ==
  IF file # None /\ Val(file) # << >> THEN Val(file) ELSE SeedQuestions

\* load_questions: the file's content, or the two sample questions when
\* the file does not exist
load_questions(file) == IF file # None THEN Val(file) ELSE SeedQuestions

\* the file after load_questions ran: the seed is saved when it was absent
FileAfterLoad(file) == IF file # None THEN file ELSE save_questions(SeedQuestions)


SetMax(S) == CHOOSE m \in S : \A x \in S : x <= m

\* mutant: the number of records plus one
NextIdFromLength(questions) == Len(questions) + 1

\* mutant: the largest id itself
NextIdIsMax(questions) ==
  IF questions = <<>> THEN 1
  ELSE SetMax({questions[k].id : k \in DOMAIN questions})

get_next_question_id(questions) ==
  IF questions = <<>> THEN 1
  ELSE SetMax({questions[k].id : k \in DOMAIN questions}) + 1

\* mutant: the first record, whatever its id
GetFirstQuestion(questions, question_id) ==
  IF questions = <<>> THEN None ELSE Some(questions[1])

\* get_question_by_id: first record with that id, None when there is none
get_question_by_id(questions, question_id) ==
  IF \E k \in DOMAIN questions : questions[k].id = question_id
  THEN Some(questions[CHOOSE k \in DOMAIN questions :
                        /\ questions[k].id = question_id
                        /\ \A h \in 1..(k-1) : questions[h].id # question_id])
  ELSE None

\* mutant: the first record is dropped, whatever its id
DeleteFirstRecord(file, question_id) ==
  LET questions == load_questions(file)
  IN  IF questions # <<>>
      THEN [file |-> save_questions(Tail(questions)), removed |-> TRUE]
      ELSE [file |-> FileAfterLoad(file), removed |-> FALSE]

\* mutant: True is returned also when no record had the id
DeleteReportsRemoved(file, question_id) ==
  LET questions == load_questions(file)
      updated_questions == SelectSeq(questions, LAMBDA q : q.id # question_id)
  IN  [file |-> save_questions(updated_questions), removed |-> TRUE]

\* delete_question_by_id: the file afterwards and the value returned
delete_question_by_id(file, question_id) ==
  LET questions == load_questions(file)
      Keep(q) == q.id # question_id
      updated_questions == SelectSeq(questions, Keep)
  IN  IF Len(updated_questions) < Len(questions)
      THEN [file |-> save_questions(updated_questions), removed |-> TRUE]
      ELSE [file |-> FileAfterLoad(file), removed |-> FALSE]

\* mutant: every record is replaced
UpdateEvery(questions, question_id, changed) ==
  [k \in DOMAIN questions |-> changed]

\* the first record with the id replaced by changed; the list as it is when
\* no record has the id (for q in questions: if q["id"] == id: ...; break)
UpdateFirst(questions, question_id, changed) ==
  [k \in DOMAIN questions |->
     IF /\ questions[k].id = question_id
        /\ \A h \in 1..(k-1) : questions[h].id # question_id
     THEN changed ELSE questions[k]]

\* mutant: the selected index is not stored
AppendNewAnswerZero(file, question, options, answer, category) ==
  LET question_id == get_next_question_id(load_questions(file))
      new_question == [id |-> question_id, question |-> question, options |-> options,
                       answer |-> 0, category |-> category]
  IN  save_questions(Append(load_questions(file), new_question))

\* get_answer / handle_poll_to_quiz: a new id, the record appended to the
\* loaded list, the list saved
AppendNew(file, question, options, answer, category) ==
  LET question_id == get_next_question_id(load_questions(file))
      new_question == [id |-> question_id, question |-> question, options |-> options,
                       answer |-> answer, category |-> category]
  IN  save_questions(Append(load_questions(file), new_question))

Ids(questions) == {questions[k].id : k \in DOMAIN questions}

\* ------------------------------------------------------------------ state
VARIABLES
  questions_file,  \* data/questions.json: None while the file does not exist
  conversations,   \* per user: the state of add_quiz_conv, clone_quiz_conv, edit_poll_quiz_conv
  user_data,       \* context.user_data of each user
  events,          \* the number of updates handled so far
  trail,           \* per user: the inputs of the dialog the user is walking through, event by event
  call,            \* SpecParse, SpecStore: the argument a function was called with and what it returned
  assigned,        \* the ids that a stored question has had so far
  users_file,      \* data/users.json: None while the file does not exist
  rounds,          \* per chat: the quiz poll /play sent last, None when none was sent
  tasks            \* per session: how far the edit handler that runs for it has come

vars == << questions_file, conversations, user_data, events, trail, call, assigned,
           users_file, rounds, tasks >>

\* context.user_data after clear()
EmptyUserData ==
  [quiz_question |-> None, quiz_options |-> None, clone_url |-> None,
   poll_to_quiz |-> None, editing |-> None, edit_question |-> None,
   quiz_correct_answer |-> None, quiz_question_id |-> None, quiz_message_id |-> None]

NoConversation == [add |-> END, clone |-> END, edit |-> END]

\* no edit handler has run for the session
NoTask == [pc |-> "idle", began |-> << >>, wrote |-> None, update |-> None]

NoCall == [fn |-> "none", text |-> <<>>, result |-> <<>>]

NoTrail == [flow |-> "none", step |-> "none", q |-> None, text |-> None, draft |-> None, sel |-> None,
            menu |-> {}, target |-> None]

\* callback_data of an inline button: f"{k}_{a}" or f"{k}_{a}_{b}"
Button(k, a, b) == [k |-> k, a |-> a, b |-> b]

\* The buttons a user can press. A message with its inline keyboard stays in
\* the chat when the dialog that sent it is cancelled or finished, and when
\* the process restarts (conversations and user_data are kept in memory
\* only), so a callback query can carry the data of any button the bot
\* ever built: answer_<i> (get_options, handle_quiz_url), polltoquiz_<i>
\* (handle_message), edit_question_<id>, edit_options_<id>, edit_answer_<id>,
\* test_quiz_<id> (handle_poll_to_quiz), editanswer_<id>_<i>
\* (handle_edit_selection), remove_<id>, confirm_remove_<id>, cancel_remove
\* (remove_quiz, button_callback).
Buttons ==
  {Button(k, i, 0) : k \in {"answer", "polltoquiz"}, i \in 0..MaxIndex}
  \cup {Button(k, id, 0) : k \in {"edit_question", "edit_options", "edit_answer",
                                   "test_quiz", "remove", "confirm_remove"},
                            id \in 1..MaxId}
  \cup {Button("editanswer", id, i) : id \in 1..MaxId, i \in 0..MaxIndex}
  \cup {Button("cancel_remove", 0, 0)}

\* mutant: the menu is built for question 1
PostCreationMenuFirstId(question_id) ==
  {Button(k, 1, 0) : k \in {"edit_question", "edit_options", "edit_answer", "test_quiz"}}

\* handle_poll_to_quiz: the keyboard sent with the preview of the new question
PostCreationMenu(question_id) ==
  {Button(k, question_id, 0) : k \in {"edit_question", "edit_options", "edit_answer", "test_quiz"}}

Init ==
  /\ questions_file \in {None, Some(<<>>)}
  /\ conversations = [u \in Users |-> NoConversation]
  /\ user_data = [u \in Users |-> EmptyUserData]
  /\ events = 0
  /\ trail = [u \in Users |-> NoTrail]
  /\ call = NoCall
  /\ assigned = IF questions_file = None THEN {} ELSE Ids(Val(questions_file))
  /\ users_file = None
  /\ rounds = [chat \in Chats |-> None]
  /\ tasks = [s \in Sessions |-> NoTask]

\* ------------------------------------------------------------ bookkeeping
\* one more update taken from the queue and handled
Update == events < MaxEvents /\ events' = events + 1 /\ UNCHANGED << call, users_file, tasks >>

\* an update handled by a handler that sends no quiz poll
Handled == Update /\ UNCHANGED rounds

\* the file as a handler that loaded it leaves it, and the ids seen in it
Store(file) == /\ questions_file' = file
               /\ assigned' = assigned \cup Ids(load_questions(questions_file)) \cup Ids(Val(file))

SetConv(u, conv, state) == conversations' = [conversations EXCEPT ![u][conv] = state]

Trail(u, t) == trail' = [trail EXCEPT ![u] = t]

\* mutant: the edit dialog takes a text also while it waits for the answer
TextHandlerInEditAnswer(u) ==
  LET c == conversations[u]
  IN  IF c.add = QUESTION THEN "get_question"
      ELSE IF c.add = OPTIONS THEN "get_options"
      ELSE IF c.clone = CLONE_URL THEN "handle_quiz_url"
      ELSE IF c.edit \in {EDIT_QUESTION, EDIT_ANSWER} THEN "handle_edit_text"
      ELSE IF c.edit = EDIT_OPTIONS THEN "handle_edit_options"
      ELSE "handle_message"

\* ---------------------------------------------------------------- routing
\* Application.process_update: the first handler of group 0 that accepts the
\* update runs; a ConversationHandler accepts it when an entry point (no
\* conversation for the key), a handler of the current state or a fallback does.
TextHandler(u) ==
  LET c == conversations[u]
  IN  IF c.add = QUESTION THEN "get_question"
      ELSE IF c.add = OPTIONS THEN "get_options"
      ELSE IF c.clone = CLONE_URL THEN "handle_quiz_url"
      ELSE IF c.edit = EDIT_QUESTION THEN "handle_edit_text"
      ELSE IF c.edit = EDIT_OPTIONS THEN "handle_edit_options"
      ELSE "handle_message"

\* mutant: clone_quiz_conv has no ANSWER state
CallbackHandlerNoCloneAnswer(u, p) ==
  LET c == conversations[u]
  IN  IF p.k = "answer" /\ c.add = ANSWER THEN << "get_answer", "add" >>
      ELSE IF c.edit = END /\ p.k \in {"edit_question", "edit_options", "edit_answer"}
        THEN << "handle_edit_selection", "edit" >>
      ELSE IF c.edit = EDIT_ANSWER /\ p.k = "editanswer" THEN << "handle_edit_answer", "edit" >>
      ELSE IF p.k = "polltoquiz" THEN << "handle_poll_to_quiz", "none" >>
      ELSE IF p.k = "test_quiz" THEN << "placeholder", "none" >>
      ELSE << "button_callback", "none" >>

CallbackHandler(u, p) ==
  LET c == conversations[u]
  IN  IF p.k = "answer" /\ c.add = ANSWER THEN << "get_answer", "add" >>
      ELSE IF p.k = "answer" /\ c.clone = ANSWER THEN << "get_answer", "clone" >>
      ELSE IF c.edit = END /\ p.k \in {"edit_question", "edit_options", "edit_answer"}
        THEN << "handle_edit_selection", "edit" >>
      ELSE IF c.edit = EDIT_ANSWER /\ p.k = "editanswer" THEN << "handle_edit_answer", "edit" >>
      ELSE IF p.k = "polltoquiz" THEN << "handle_poll_to_quiz", "none" >>
      ELSE IF p.k = "test_quiz" THEN << "placeholder", "none" >>
      ELSE << "button_callback", "none" >>

\* mutant: only add_quiz_conv has the cancel fallback
CancelConvAddOnly(u) ==
  IF conversations[u].add # END THEN "add" ELSE "none"

\* the conversation whose fallback takes /cancel: the first one with a state
CancelConv(u) ==
  LET c == conversations[u]
  IN  IF c.add # END THEN "add"
      ELSE IF c.clone # END THEN "clone"
      ELSE IF c.edit # END THEN "edit"
      ELSE "none"

\* ------------------------------------------------------------ create flow
add_quiz(u) ==
  /\ conversations[u].add = END
  /\ SetConv(u, "add", QUESTION)
  /\ Handled  \* ask question
  /\ Trail(u, [NoTrail EXCEPT !.flow = "add", !.step = "entered"])
  /\ UNCHANGED << questions_file, assigned, user_data >>

get_question(u, question_text) ==
  /\ TextHandler(u) = "get_question"
  /\ user_data' = [user_data EXCEPT ![u].quiz_question = Some(question_text)]
  /\ SetConv(u, "add", OPTIONS)
  /\ Handled  \* ask options
  /\ Trail(u, IF \/ trail[u].flow = "add" /\ trail[u].step = "entered"
                 \/ trail[u].flow = "clone" /\ trail[u].step = "failed"
              THEN [trail[u] EXCEPT !.step = "question", !.q = Some(question_text)]
              ELSE NoTrail)
  /\ UNCHANGED << questions_file, assigned >>

get_options(u, options_text) ==
  /\ TextHandler(u) = "get_options"
  /\ LET options == ParseOptions(options_text)
     IN  IF Len(options) < 2
         THEN /\ Handled  \* need two options
              /\ Trail(u, IF trail[u].step = "question"
                          THEN [trail[u] EXCEPT !.text = Some(options_text)]
                          ELSE NoTrail)
              /\ UNCHANGED << conversations, user_data >>
         ELSE /\ user_data' = [user_data EXCEPT ![u].quiz_options = Some(options)]
              /\ SetConv(u, "add", ANSWER)
              /\ Handled  \* ask answer
              /\ Trail(u, IF trail[u].step = "question"
                          THEN [trail[u] EXCEPT !.step = "options", !.text = Some(options_text)]
                          ELSE NoTrail)
  /\ UNCHANGED << questions_file, assigned >>

\* the selection the trail records when an answer_<i> button is pressed
TrailSelect(u, i) ==
  IF trail[u].step \in {"options", "imported"}
  THEN [trail[u] EXCEPT !.step = "selected", !.sel = Some(i)]
  ELSE NoTrail

get_answer(u, p) ==
  /\ CallbackHandler(u, p)[1] = "get_answer"
  /\ LET answer_idx == p.a
         question == user_data[u].quiz_question
         options == user_data[u].quiz_options
         question_id == get_next_question_id(load_questions(questions_file))
     IN  /\ question_id <= MaxId
         /\ Store(AppendNew(questions_file, question, options, answer_idx, "User Created"))
         /\ IF options = None \/ answer_idx >= Len(Val(options))
            THEN \* options[answer_idx] raises: nothing after the save runs
                 /\ Handled  \* raised
                 /\ UNCHANGED << conversations, user_data >>
            ELSE /\ user_data' = [user_data EXCEPT ![u] = EmptyUserData]
                 /\ SetConv(u, CallbackHandler(u, p)[2], END)
                 /\ Handled  \* created
         /\ Trail(u, TrailSelect(u, answer_idx))

\* mutant: the scratch of every user is cleared
CancelClearsEveryScratch(u) ==
  /\ CancelConv(u) # "none"
  /\ user_data' = [x \in DOMAIN user_data |-> EmptyUserData]
  /\ SetConv(u, CancelConv(u), END)
  /\ Handled
  /\ Trail(u, [NoTrail EXCEPT !.flow = CancelConv(u), !.step = "cancelled"])
  /\ UNCHANGED << questions_file, assigned >>

cancel(u) ==
  /\ CancelConv(u) # "none"
  /\ user_data' = [user_data EXCEPT ![u] = EmptyUserData]
  /\ SetConv(u, CancelConv(u), END)
  /\ Handled  \* cancelled
  /\ Trail(u, [NoTrail EXCEPT !.flow = CancelConv(u), !.step = "cancelled"])
  /\ UNCHANGED << questions_file, assigned >>

\* ------------------------------------------------------------- clone flow
\* the body of handle_quiz_url; quiz_data is what parse_telegram_quiz_url
\* returned for the url
QuizUrl(u, url, quiz_data) ==
  /\ IF quiz_data = None
     THEN /\ user_data' = [user_data EXCEPT ![u].clone_url = Some(url)]
          /\ SetConv(u, "clone", QUESTION)
          /\ Handled  \* ask question
          /\ Trail(u, [NoTrail EXCEPT !.flow = "clone", !.step = "failed"])
     ELSE /\ user_data' = [user_data EXCEPT
                             ![u].quiz_question = Some(Val(quiz_data).question),
                             ![u].quiz_options = Some(Val(quiz_data).options)]
          /\ SetConv(u, "clone", ANSWER)
          /\ Handled  \* ask answer
          /\ Trail(u, [NoTrail EXCEPT !.flow = "clone", !.step = "imported", !.draft = quiz_data])
  /\ UNCHANGED << questions_file, assigned >>

\* /clone [url]: args is None when the command carries no http... argument
clone_quiz(u, args, quiz_data) ==
  /\ conversations[u].clone = END
  /\ IF args # None
     THEN QuizUrl(u, Val(args), quiz_data)
     ELSE /\ quiz_data = None
          /\ SetConv(u, "clone", CLONE_URL)
          /\ Handled  \* ask url
          /\ Trail(u, [NoTrail EXCEPT !.flow = "clone", !.step = "entered"])
          /\ UNCHANGED << questions_file, assigned, user_data >>

handle_quiz_url(u, url, quiz_data) ==
  /\ TextHandler(u) = "handle_quiz_url"
  /\ QuizUrl(u, url, quiz_data)

\* -------------------------------------------------------- poll conversion
\* poll is None for a plain text message that no conversation takes
handle_message(u, poll) ==
  /\ IF poll = None
     THEN /\ TextHandler(u) = "handle_message"
          /\ Handled  \* help
          /\ UNCHANGED user_data
     ELSE /\ user_data' = [user_data EXCEPT ![u].poll_to_quiz =
                             Some([question |-> Val(poll).question, options |-> Val(poll).options])]
          /\ Handled  \* ask answer
  /\ Trail(u, IF poll = None THEN NoTrail
              ELSE [NoTrail EXCEPT !.flow = "poll", !.step = "received", !.draft = poll])
  /\ UNCHANGED << questions_file, assigned, conversations >>

handle_poll_to_quiz(u, p) ==
  /\ CallbackHandler(u, p)[1] = "handle_poll_to_quiz"
  /\ LET option_id == p.a
         poll_data == user_data[u].poll_to_quiz
         question_id == get_next_question_id(load_questions(questions_file))
     IN  IF poll_data = None
         THEN /\ Handled  \* no poll data
              /\ Trail(u, NoTrail)
              /\ UNCHANGED << questions_file, assigned, user_data >>
         ELSE /\ question_id <= MaxId
              /\ Store(AppendNew(questions_file, Some(Val(poll_data).question),
                                 Some(Val(poll_data).options), option_id, "Converted Poll"))
              /\ user_data' = [user_data EXCEPT ![u].poll_to_quiz = None]
              /\ Handled  \* converted
              /\ Trail(u, IF trail[u].flow = "poll" /\ trail[u].step = "received"
                          THEN [trail[u] EXCEPT !.step = "converted", !.sel = Some(option_id),
                                                !.menu = PostCreationMenu(question_id)]
                          ELSE [NoTrail EXCEPT !.menu = PostCreationMenu(question_id)])
  /\ UNCHANGED conversations

\* -------------------------------------------------------------- edit flow
\* edit_<action>_<id> pressed while edit_poll_quiz_conv has no conversation
handle_edit_selection(u, p) ==
  /\ CallbackHandler(u, p)[1] = "handle_edit_selection"
  /\ LET question_id == p.a
         question == get_question_by_id(load_questions(questions_file), question_id)
         editing(action) == Some([question_id |-> question_id, action |-> action])
     IN  /\ Store(FileAfterLoad(questions_file))
         /\ IF question = None
            THEN /\ Handled  \* not found
                 /\ UNCHANGED << user_data, conversations >>
            ELSE IF p.k = "edit_question"
            THEN /\ user_data' = [user_data EXCEPT ![u].editing = editing("question")]
                 /\ SetConv(u, "edit", EDIT_QUESTION)
                 /\ Handled  \* ask text
            ELSE IF Val(question).options = None
            THEN \* "\n".join(None) / enumerate(None) raises after the assignment
                 /\ user_data' = [user_data EXCEPT ![u].editing =
                                    editing(IF p.k = "edit_options" THEN "options" ELSE "answer")]
                 /\ Handled  \* raised
                 /\ UNCHANGED conversations
            ELSE IF p.k = "edit_options"
            THEN /\ user_data' = [user_data EXCEPT ![u].editing = editing("options")]
                 /\ SetConv(u, "edit", EDIT_OPTIONS)
                 /\ Handled  \* ask options
            ELSE /\ user_data' = [user_data EXCEPT ![u].editing = editing("answer")]
                 /\ SetConv(u, "edit", EDIT_ANSWER)
                 /\ Handled  \* ask answer
  /\ Trail(u, IF conversations'[u].edit # END
              THEN [NoTrail EXCEPT !.flow = "edit", !.step = p.k, !.target = Some(p.a)]
              ELSE NoTrail)

handle_edit_text(u, new_text) ==
  /\ TextHandler(u) = "handle_edit_text"
  /\ LET editing_data == user_data[u].editing
         question_id == Val(editing_data).question_id
         questions == load_questions(questions_file)
         question == get_question_by_id(questions, question_id)
         changed == [Val(question) EXCEPT !.question = Some(new_text)]
     IN  IF editing_data = None
         THEN /\ Handled  \* no editing session
              /\ UNCHANGED << questions_file, assigned, user_data >>
         ELSE IF question = None
         THEN /\ Store(FileAfterLoad(questions_file))
              /\ Handled  \* not found
              /\ UNCHANGED user_data
         ELSE /\ Store(save_questions(UpdateFirst(questions, question_id, changed)))
              /\ user_data' = [user_data EXCEPT ![u].editing = None]
              /\ Handled  \* updated
  /\ SetConv(u, "edit", END)
  /\ Trail(u, IF trail[u].flow = "edit" /\ trail[u].step = "edit_question"
              THEN [trail[u] EXCEPT !.step = "updated", !.q = Some(new_text)]
              ELSE NoTrail)

handle_edit_options(u, new_options_text) ==
  /\ TextHandler(u) = "handle_edit_options"
  /\ LET new_options == ParseNewOptions(new_options_text)
         editing_data == user_data[u].editing
         question_id == Val(editing_data).question_id
         questions == load_questions(questions_file)
         question == get_question_by_id(questions, question_id)
         old_answer == Val(question).answer
         changed == [Val(question) EXCEPT !.options = Some(new_options),
                                          !.answer = IF old_answer >= Len(new_options) THEN 0 ELSE @]
     IN  IF Len(new_options) < 2
         THEN /\ Handled  \* need two options
              /\ Trail(u, IF trail[u].flow = "edit" /\ trail[u].step = "edit_options"
                          THEN [trail[u] EXCEPT !.text = Some(new_options_text)]
                          ELSE NoTrail)
              /\ UNCHANGED << questions_file, assigned, user_data, conversations >>
         ELSE IF editing_data = None
         THEN /\ Handled  \* no editing session
              /\ SetConv(u, "edit", END)
              /\ Trail(u, NoTrail)
              /\ UNCHANGED << questions_file, assigned, user_data >>
         ELSE IF question = None
         THEN /\ Store(FileAfterLoad(questions_file))
              /\ Handled  \* not found
              /\ SetConv(u, "edit", END)
              /\ Trail(u, NoTrail)
              /\ UNCHANGED user_data
         ELSE /\ Store(save_questions(UpdateFirst(questions, question_id, changed)))
              /\ user_data' = [user_data EXCEPT ![u].editing = None]
              /\ Handled  \* updated
              /\ SetConv(u, "edit", END)
              /\ Trail(u, IF trail[u].flow = "edit" /\ trail[u].step = "edit_options"
                          THEN [trail[u] EXCEPT !.step = "updated", !.text = Some(new_options_text)]
                          ELSE NoTrail)

\* editanswer_<question_id>_<new_answer> pressed in state EDIT_ANSWER
handle_edit_answer(u, p) ==
  /\ CallbackHandler(u, p)[1] = "handle_edit_answer"
  /\ LET question_id == p.a
         new_answer == p.b
         question == get_question_by_id(load_questions(questions_file), question_id)
         questions == IF question = None THEN load_questions(questions_file)
                      ELSE UpdateFirst(load_questions(questions_file), question_id,
                                       [Val(question) EXCEPT !.answer = new_answer])
         updated_question == get_question_by_id(questions, question_id)
     IN  /\ Store(save_questions(questions))
         /\ user_data' = [user_data EXCEPT ![u].editing = None]
         /\ IF updated_question = None \/ Val(updated_question).options = None
            THEN \* updated_question["options"] / enumerate(None) raises
                 /\ Handled  \* raised
                 /\ UNCHANGED conversations
            ELSE /\ Handled  \* updated
                 /\ SetConv(u, "edit", END)
  /\ Trail(u, IF trail[u].flow = "edit" /\ trail[u].step = "edit_answer"
              THEN [trail[u] EXCEPT !.step = "updated", !.sel = Some(p.b)]
              ELSE NoTrail)

\* /edit [id]: main() registers no CommandHandler for "edit" (edit_quiz is
\* never added), the conversations' text handlers exclude commands and so does
\* handle_message: no handler takes the update
edit_command(u, args) ==
  /\ Handled  \* no handler
  /\ Trail(u, NoTrail)
  /\ UNCHANGED << questions_file, assigned, user_data, conversations >>

\* ------------------------------------------------------------ remove flow
\* /remove [id]: args is None when the command carries no argument
remove_quiz(u, args) ==
  /\ Store(FileAfterLoad(questions_file))
  /\ IF args = None
     THEN IF load_questions(questions_file) = <<>>
          THEN Handled  \* none available
          ELSE Handled  \* ask which
     ELSE IF get_question_by_id(load_questions(questions_file), Val(args)) = None
          THEN Handled  \* not found
          ELSE Handled  \* ask confirm
  /\ Trail(u, NoTrail)
  /\ UNCHANGED << user_data, conversations >>

\* the catch-all CallbackQueryHandler, registered last
button_callback(u, p) ==
  /\ CallbackHandler(u, p)[1] = "button_callback"
  /\ IF p.k = "cancel_remove"
     THEN /\ Handled  \* deletion cancelled
          /\ UNCHANGED << questions_file, assigned, user_data >>
     ELSE IF p.k = "confirm_remove"
     THEN /\ UNCHANGED user_data
          /\ IF get_question_by_id(load_questions(questions_file), p.a) = None
             THEN /\ Store(FileAfterLoad(questions_file))
                  /\ Handled  \* not found
             ELSE /\ Store(delete_question_by_id(questions_file, p.a).file)
                  /\ IF delete_question_by_id(questions_file, p.a).removed
                     THEN Handled  \* deleted
                     ELSE Handled  \* delete failed
     ELSE IF p.k = "remove"
     THEN /\ Store(FileAfterLoad(questions_file))
          /\ UNCHANGED user_data
          /\ IF get_question_by_id(load_questions(questions_file), p.a) = None
             THEN Handled  \* not found
             ELSE Handled  \* ask confirm
     ELSE IF p.k \in {"edit_question", "edit_options", "edit_answer"}
     THEN \* int("question") raises ValueError, which the branch catches
          /\ Handled  \* error processing
          /\ UNCHANGED << questions_file, assigned, user_data >>
     ELSE IF p.k = "editanswer"
     THEN LET answer_idx == p.a
              edit_question == user_data[u].edit_question
              question == [Val(edit_question) EXCEPT !.answer = answer_idx]
              questions == UpdateFirst(load_questions(questions_file), question.id, question)
          IN  IF edit_question = None
              THEN /\ Handled  \* no question being edited
                   /\ UNCHANGED << questions_file, assigned, user_data >>
              ELSE /\ Store(save_questions(questions))
                   /\ IF question.options = None
                      THEN /\ Handled  \* raised
                           /\ user_data' = [user_data EXCEPT ![u].edit_question = Some(question)]
                      ELSE IF answer_idx >= Len(Val(question.options))
                      THEN /\ Handled  \* error updating
                           /\ user_data' = [user_data EXCEPT ![u].edit_question = Some(question)]
                      ELSE /\ Handled  \* updated
                           /\ user_data' = [user_data EXCEPT ![u] = EmptyUserData]
     ELSE \* answer_<i> with no conversation in ANSWER: no branch matches
          /\ Handled  \* ignored
          /\ UNCHANGED << questions_file, assigned, user_data >>
  /\ Trail(u, IF p.k = "answer" THEN TrailSelect(u, p.a) ELSE NoTrail)
  /\ UNCHANGED conversations

\* CallbackQueryHandler(lambda u, c: None, pattern=r"^test_quiz_"): the
\* callback returns None, which cannot be awaited
test_quiz_placeholder(u, p) ==
  /\ CallbackHandler(u, p)[1] = "placeholder"
  /\ Handled  \* raised
  /\ Trail(u, [NoTrail EXCEPT !.flow = "test", !.step = "raised", !.target = Some(p.a)])
  /\ UNCHANGED << questions_file, assigned, user_data, conversations >>

\* ---------------------------------------------------------- specification
Next ==
  \E u \in Users :
    \/ add_quiz(u)
    \/ \E q \in QuestionTexts : get_question(u, q)
    \/ \E t \in OptionTexts : get_options(u, t)
    \/ \E p \in Buttons : get_answer(u, p)
    \/ cancel(u)
    \/ \E url \in Urls, quiz_data \in {None} \cup {Some(d) : d \in ImportDrafts} :
         \/ clone_quiz(u, None, quiz_data)
         \/ clone_quiz(u, Some(url), quiz_data)
         \/ handle_quiz_url(u, url, quiz_data)
    \/ \E poll \in {None} \cup {Some(d) : d \in ForwardedPolls} : handle_message(u, poll)
    \/ \E p \in Buttons : handle_poll_to_quiz(u, p)
    \/ \E p \in Buttons : handle_edit_selection(u, p)
    \/ \E q \in QuestionTexts : handle_edit_text(u, q)
    \/ \E t \in OptionTexts : handle_edit_options(u, t)
    \/ \E p \in Buttons : handle_edit_answer(u, p)
    \/ \E args \in {None} \cup {Some(id) : id \in 1..MaxId} : remove_quiz(u, args)
    \/ \E args \in {None} \cup {Some(id) : id \in 1..MaxId} : edit_command(u, args)
    \/ \E p \in Buttons : button_callback(u, p)
    \/ \E p \in Buttons : test_quiz_placeholder(u, p)

Spec == Init /\ [][Next]_vars

\* ---------------------------------------------------- malformed payloads
\* callback data that no button of the bot carries (CallbackQuery.data is
\* chosen by the client): the prefix of a selection followed by "x" where
\* the id or index belongs, as in answer_x, polltoquiz_x, edit_question_x,
\* editanswer_x_0, remove_x, confirm_remove_x
MalformedKinds ==
  {"answer", "polltoquiz", "edit_question", "editanswer", "remove", "confirm_remove"}

\* the patterns of main() look at the prefix only, so the update is routed
\* like a button with the same prefix
MalformedHandler(u, k) == CallbackHandler(u, Button(k, 0, 0))

malformed_selection(u, k) ==
  /\ Handled
  /\ Trail(u, NoTrail)
  /\ UNCHANGED << questions_file, assigned, user_data >>
  /\ IF MalformedHandler(u, k)[1] = "handle_edit_answer"
     THEN \* int(parts[1]) raises ValueError, caught at 1467: END is returned
          SetConv(u, "edit", END)
     ELSE \* get_answer (537) and handle_poll_to_quiz (1548): int() raises
          \* ValueError outside any try, the handler returns nothing;
          \* handle_edit_selection (1605) replies and returns None;
          \* button_callback (975, 1006, 1047, 1086) replies from its except
          \* branches, or matches no branch for answer_x
          UNCHANGED conversations

NextPayload ==
  \/ Next
  \/ \E u \in Users, k \in MalformedKinds : malformed_selection(u, k)

SpecPayload == Init /\ [][NextPayload]_vars

\* ------------------------------------------- authoring after /add
\* the state after the first update, /add, was handled by add_quiz; the
\* updates counted by events are the ones that follow it
InitAuthoring ==
  /\ questions_file \in {None, Some(<< >>)}
  /\ conversations = [u \in Users |-> [NoConversation EXCEPT !.add = QUESTION]]
  /\ user_data = [u \in Users |-> EmptyUserData]
  /\ events = 0
  /\ trail = [u \in Users |-> [NoTrail EXCEPT !.flow = "add", !.step = "entered"]]
  /\ call = NoCall
  /\ assigned = IF questions_file = None THEN {} ELSE Ids(Val(questions_file))
  /\ users_file = None
  /\ rounds = [chat \in Chats |-> None]
  /\ tasks = [s \in Sessions |-> NoTask]

\* the handlers of the create, clone and poll-conversion dialogs
NextAuthoring ==
  \E u \in Users :
    \/ add_quiz(u)
    \/ \E q \in QuestionTexts : get_question(u, q)
    \/ \E t \in OptionTexts : get_options(u, t)
    \/ \E p \in Buttons : get_answer(u, p)
    \/ cancel(u)
    \/ \E url \in Urls, quiz_data \in {None} \cup {Some(d) : d \in ImportDrafts} :
         \/ clone_quiz(u, None, quiz_data)
         \/ clone_quiz(u, Some(url), quiz_data)
         \/ handle_quiz_url(u, url, quiz_data)
    \/ \E poll \in {None} \cup {Some(d) : d \in ForwardedPolls} : handle_message(u, poll)
    \/ \E p \in Buttons : handle_poll_to_quiz(u, p)
    \/ \E p \in Buttons : button_callback(u, p)

SpecAuthoring == InitAuthoring /\ [][NextAuthoring]_vars

\* ------------------------------------------------------------ round trip
\* save_questions(load_questions()): the list that was read is written back
\* as it is (what the loop of handle_edit_answer, 1472-1478, does when no
\* record has the id)
round_trip ==
  /\ Store(save_questions(load_questions(questions_file)))
  /\ call' = [fn |-> "save_questions", text |-> << >>, result |-> << >>]
  /\ UNCHANGED << conversations, user_data, events, trail, users_file, rounds, tasks >>

NextRoundTrip == Next \/ round_trip

SpecRoundTrip == Init /\ [][NextRoundTrip]_vars

\* ------------------------------------------ the store operations on their own
\* The create and delete steps of the handlers, restricted to the file: ids up
\* to MaxStoreId, so that gaps in the stored ids occur.
persist_new_question ==
  /\ get_next_question_id(load_questions(questions_file)) <= MaxStoreId
  /\ Store(AppendNew(questions_file, Some("q1"), Some(<< <<"a">>, <<"b">> >>), 0, "User Created"))
  /\ UNCHANGED << conversations, user_data, events, trail, call, users_file, rounds, tasks >>

confirm_remove(question_id) ==
  /\ get_question_by_id(load_questions(questions_file), question_id) # None
  /\ Store(delete_question_by_id(questions_file, question_id).file)
  /\ UNCHANGED << conversations, user_data, events, trail, call, users_file, rounds, tasks >>

\* delete_question_by_id called with any id, stored or not
delete_question(question_id) ==
  /\ Store(delete_question_by_id(questions_file, question_id).file)
  /\ call' = [fn |-> "delete_question_by_id", text |-> << question_id >>,
              result |-> << delete_question_by_id(questions_file, question_id).removed >>]
  /\ UNCHANGED << conversations, user_data, events, trail, users_file, rounds, tasks >>

\* one call of load_questions, as /list makes it (line 583)
read_questions ==
  /\ Store(FileAfterLoad(questions_file))
  /\ call' = [fn |-> "load_questions", text |-> << >>,
              result |-> load_questions(questions_file)]
  /\ UNCHANGED << conversations, user_data, events, trail, users_file, rounds, tasks >>

NextStore ==
  \/ persist_new_question
  \/ read_questions
  \/ \E question_id \in 1..MaxStoreId : confirm_remove(question_id)
  \/ \E question_id \in 1..MaxStoreId : delete_question(question_id)

SpecStore == Init /\ [][NextStore]_vars

\* ------------------------------------------------------- failing writes
\* what a save_questions that returned False left behind: open() raised and
\* the file is as it was, or json.dump raised after open() truncated the file
\* and load_questions now answers [] from its except branch
WriteOutcomes == {"open failed", "dump failed"}

FailedWrite(file, outcome) == IF outcome = "open failed" THEN file ELSE Some(<< >>)

\* the end of get_answer (lines 543-571) when save_questions returns False:
\* the value is not looked at and the success text of line 561 is sent
create_write_fails(outcome) ==
  /\ questions_file # None
  /\ questions_file' = FailedWrite(questions_file, outcome)
  /\ call' = [fn |-> "get_answer", text |-> << outcome >>,
              result |-> << "Quiz question created successfully" >>]
  /\ UNCHANGED << conversations, user_data, events, trail, assigned, users_file, rounds, tasks >>

\* confirm_remove_<id> (lines 961-977) when the save_questions of
\* delete_question_by_id returns False: line 103 returns True all the same
\* and the text of line 972 is sent
delete_write_fails(question_id, outcome) ==
  /\ questions_file # None
  /\ get_question_by_id(load_questions(questions_file), question_id) # None
  /\ questions_file' = FailedWrite(questions_file, outcome)
  /\ call' = [fn |-> "button_callback", text |-> << outcome >>,
              result |-> << "Quiz question has been deleted" >>]
  /\ UNCHANGED << conversations, user_data, events, trail, assigned, users_file, rounds, tasks >>

NextIO ==
  \/ persist_new_question
  \/ \E question_id \in 1..MaxStoreId : confirm_remove(question_id)
  \/ \E outcome \in WriteOutcomes : create_write_fails(outcome)
  \/ \E question_id \in 1..MaxStoreId, outcome \in WriteOutcomes :
       delete_write_fails(question_id, outcome)

SpecIO == Init /\ [][NextIO]_vars

\* ------------------------------------------- two edit handlers interleaved
\* Each session is in a state of edit_poll_quiz_conv with its own target in
\* scratch; the two targets are different stored questions. A handler runs
\* from one await to the next without another handler running in between;
\* at an await (query.answer, reply_text, edit_message_text) the handler of
\* the other session may run. tasks[s].began is the list of questions when
\* handle_edit_answer reached its first await.
EditTarget(s) == IF s = "s1" THEN 1 ELSE 2

ListReadBeforeAwait(file, began) == began

\* questions = load_questions() (1377, 1421, 1472) runs between the same two
\* awaits as save_questions (1383, 1432, 1478): the list that is changed and
\* saved is the file as it is now, not as it was when the handler began
ListToUpdate(file, began) == load_questions(file)

\* the part of an edit handler from the load to the save; began is the list
\* as it was after the handler's last await
WriteEdit(s, began, changed) ==
  /\ Store(save_questions(UpdateFirst(ListToUpdate(questions_file, began),
                                      EditTarget(s), changed)))
  /\ tasks' = [tasks EXCEPT ![s].pc = "written", ![s].wrote = Some(changed)]
  /\ UNCHANGED << conversations, user_data, events, trail, call, users_file, rounds >>

\* handle_edit_text up to the await of reply_text (1360-1388)
edit_text_write(s, new_text) ==
  /\ tasks[s].pc = "idle"
  /\ LET question == get_question_by_id(load_questions(questions_file), EditTarget(s))
     IN  WriteEdit(s, load_questions(questions_file),
                   [Val(question) EXCEPT !.question = Some(new_text)])

\* handle_edit_options up to the await of reply_text (1396-1442)
edit_options_write(s, new_options_text) ==
  /\ tasks[s].pc = "idle"
  /\ LET new_options == ParseNewOptions(new_options_text)
         question == get_question_by_id(load_questions(questions_file), EditTarget(s))
         old_answer == Val(question).answer
     IN  IF Len(new_options) < 2
         THEN UNCHANGED vars  \* re-prompt, the state stays EDIT_OPTIONS
         ELSE WriteEdit(s, load_questions(questions_file), [Val(question) EXCEPT
                !.options = Some(new_options),
                !.answer = IF old_answer >= Len(new_options) THEN 0 ELSE @])

\* handle_edit_answer up to the await of query.answer() (1453-1456)
edit_answer_begin(s) ==
  /\ tasks[s].pc = "idle"
  /\ tasks' = [tasks EXCEPT ![s].pc = "answered",
                            ![s].began = load_questions(questions_file)]
  /\ UNCHANGED << questions_file, assigned, conversations, user_data, events, trail,
                  call, users_file, rounds >>

\* handle_edit_answer from there to the await of edit_message_text (1458-1490)
edit_answer_write(s, new_answer) ==
  /\ tasks[s].pc = "answered"
  /\ LET question == get_question_by_id(ListToUpdate(questions_file, tasks[s].began),
                                        EditTarget(s))
     IN  WriteEdit(s, tasks[s].began, [Val(question) EXCEPT !.answer = new_answer])

\* the reply was sent and the handler returns ConversationHandler.END
edit_return(s) ==
  /\ tasks[s].pc = "written"
  /\ tasks' = [tasks EXCEPT ![s].pc = "done"]
  /\ UNCHANGED << questions_file, assigned, conversations, user_data, events, trail,
                  call, users_file, rounds >>

NextEdit ==
  \E s \in Sessions :
    \/ \E new_text \in QuestionTexts : edit_text_write(s, new_text)
    \/ \E new_options_text \in OptionTexts : edit_options_write(s, new_options_text)
    \/ edit_answer_begin(s)
    \/ \E new_answer \in 0..MaxIndex : edit_answer_write(s, new_answer)
    \/ edit_return(s)

\* no questions file yet: the store is the two sample questions
InitEdit == Init /\ questions_file = None

SpecEdit == InitEdit /\ [][NextEdit]_vars

\* ------------------------------------------------- the update loop
\* The updates a session can send: a url in CLONE_URL (or /clone <url>),
\* which makes handle_quiz_url call parse_telegram_quiz_url, and updates
\* whose handlers make no network call of their own.
UpdateKinds == {"clone_url", "text", "callback", "command"}

\* a handler is inside requests.get (line 202): the call is made in the
\* thread of the event loop, not awaited and not handed to an executor
LoopBlocked == \E s \in Sessions : tasks[s].pc = "importing"

\* the user of session s sends an update; it waits in the update queue
send_update(s, kind) ==
  /\ tasks[s].pc = "idle"
  /\ events < MaxEvents
  /\ events' = events + 1
  /\ tasks' = [tasks EXCEPT ![s].pc = "queued", ![s].update = Some(kind)]
  /\ UNCHANGED << questions_file, assigned, conversations, user_data, trail, call,
                  users_file, rounds >>

\* the application takes the update of s from the queue and runs its
\* handler: to the end, or into requests.get for a url
process_update(s) ==
  /\ tasks[s].pc = "queued"
  /\ ~LoopBlocked
  /\ tasks' = [tasks EXCEPT ![s].pc = IF tasks[s].update = Some("clone_url")
                                     THEN "importing" ELSE "idle",
                            ![s].update = IF tasks[s].update = Some("clone_url")
                                         THEN @ ELSE None]
  /\ UNCHANGED << questions_file, assigned, conversations, user_data, events, trail,
                  call, users_file, rounds >>

\* the server answered: requests.get returns and handle_quiz_url runs to
\* its end. No timeout is passed at line 202, so nothing makes this happen.
import_returns(s) ==
  /\ tasks[s].pc = "importing"
  /\ tasks' = [tasks EXCEPT ![s].pc = "idle", ![s].update = None]
  /\ UNCHANGED << questions_file, assigned, conversations, user_data, events, trail,
                  call, users_file, rounds >>

NextLoop ==
  \E s \in Sessions :
    \/ \E kind \in UpdateKinds : send_update(s, kind)
    \/ process_update(s)
    \/ import_returns(s)

\* the event loop runs whenever it is not blocked: a queued update is
\* taken; nothing is assumed about the network
FairLoop == \A s \in Sessions : WF_vars(process_update(s))

SpecLoop == Init /\ [][NextLoop]_vars /\ FairLoop

\* ------------------------------------------- the options parser on its own
InitParse ==
  /\ questions_file = None
  /\ conversations = [u \in Users |-> NoConversation]
  /\ user_data = [u \in Users |-> EmptyUserData]
  /\ events = 0
  /\ trail = [u \in Users |-> NoTrail]
  /\ call \in {[fn |-> "none", text |-> t, result |-> <<>>] : t \in ParseTexts}
  /\ assigned = {}
  /\ users_file = None
  /\ rounds = [chat \in Chats |-> None]
  /\ tasks = [s \in Sessions |-> NoTask]

\* get_options gives the message text to its comprehension
get_options_parse ==
  /\ call.fn = "none"
  /\ call' = [call EXCEPT !.fn = "get_options", !.result = ParseOptions(call.text)]
  /\ UNCHANGED << questions_file, conversations, user_data, events, trail, assigned,
                  users_file, rounds, tasks >>

\* handle_edit_options gives the message text to its comprehension
handle_edit_options_parse ==
  /\ call.fn = "none"
  /\ call' = [call EXCEPT !.fn = "handle_edit_options", !.result = ParseNewOptions(call.text)]
  /\ UNCHANGED << questions_file, conversations, user_data, events, trail, assigned,
                  users_file, rounds, tasks >>

NextParse == get_options_parse \/ handle_edit_options_parse

SpecParse == InitParse /\ [][NextParse]_vars

\* ------------------------------------------------------ the user-stats file
\* load_users: the rows of data/users.json keyed by user id, no rows when
\* the file does not exist
load_users(file) == IF file # None THEN Val(file) ELSE [r \in {} |-> 0]

\* save_user_data: the whole file is overwritten
save_user_data(rows) == Some(rows)

UpdateStatsTotalOnlyWhenWrong(file, user_id, user_name, is_correct) ==
  LET loaded == load_users(file)
      created == IF user_id \in DOMAIN loaded THEN loaded
                 ELSE [r \in DOMAIN loaded \cup {user_id} |->
                         IF r = user_id THEN [name |-> user_name, correct |-> 0, total |-> 0]
                         ELSE loaded[r]]
  IN save_user_data(IF is_correct THEN [created EXCEPT ![user_id].correct = @ + 1]
                    ELSE [created EXCEPT ![user_id].total = @ + 1])

\* update_user_stats: the file after one answer of user_id was counted
update_user_stats(file, user_id, user_name, is_correct) ==
  LET loaded == load_users(file)
      created == IF user_id \in DOMAIN loaded THEN loaded
                 ELSE [r \in DOMAIN loaded \cup {user_id} |->
                         IF r = user_id THEN [name |-> user_name, correct |-> 0, total |-> 0]
                         ELSE loaded[r]]
      counted == [created EXCEPT ![user_id].total = @ + 1]
  IN save_user_data(IF is_correct THEN [counted EXCEPT ![user_id].correct = @ + 1]
                    ELSE counted)

\* ---------------------------------------------------------- playing a quiz
\* /stats: reads the caller's row and replies
stats_command(u) ==
  /\ Handled  \* the row of u in load_users(users_file), or "no answers yet"
  /\ Trail(u, NoTrail)
  /\ UNCHANGED << questions_file, assigned, conversations, user_data >>

\* send_poll is refused by Telegram for a question without text or options
\* or with a correct_option_id that is not one of the options
Sendable(question_data) ==
  /\ question_data.question # None
  /\ question_data.options # None
  /\ Len(Val(question_data.options)) >= 2
  /\ question_data.answer \in 0..(Len(Val(question_data.options)) - 1)

CorrectOptionFirst(question_data) == 0

\* correct_option_id = question_data["answer"] (line 433)
correct_option_id(question_data) == question_data.answer

\* /play sent by u in chat; k is the record random.choice picks
play(u, chat, k) ==
  LET questions == load_questions(questions_file) IN
  /\ Update
  /\ Store(FileAfterLoad(questions_file))
  /\ Trail(u, NoTrail)
  /\ UNCHANGED conversations
  /\ IF questions = <<>>
     THEN UNCHANGED << user_data, rounds >>  \* no questions available
     ELSE /\ k \in DOMAIN questions
          /\ IF Sendable(questions[k])
             THEN /\ user_data' = [user_data EXCEPT
                       ![u].quiz_correct_answer = Some(correct_option_id(questions[k])),
                       ![u].quiz_question_id = Some(questions[k].id),
                       ![u].quiz_message_id = Some(chat)]
                  /\ rounds' = [rounds EXCEPT ![chat] =
                       Some([starter |-> u, id |-> questions[k].id,
                             answer |-> correct_option_id(questions[k])])]
             ELSE \* send_poll raises after the two keys were stored
                  /\ user_data' = [user_data EXCEPT
                       ![u].quiz_correct_answer = Some(correct_option_id(questions[k])),
                       ![u].quiz_question_id = Some(questions[k].id)]
                  /\ UNCHANGED rounds

\* the value line 465 of handle_poll_answer compares an answer with, for an
\* update whose user is u
correct_option(u) == user_data[u].quiz_correct_answer

\* responder r picks option c of the quiz poll that was sent to chat.
\* Telegram reports it as a poll update (the new vote counts) and a
\* poll_answer update. The only handler registered for either is
\* PollHandler(handle_poll_answer), which accepts the poll update; there
\* update.poll_answer is None, so line 459 raises AttributeError before
\* update_user_stats is reached. No handler accepts the poll_answer update.
handle_poll_answer(chat, r, c) ==
  /\ rounds[chat] # None
  /\ Update
  /\ UNCHANGED << questions_file, assigned, conversations, user_data, trail, rounds >>

NextPlay ==
  \/ \E u \in Users, chat \in Chats, k \in 1..MaxId : play(u, chat, k)
  \/ \E chat \in Chats, r \in Responders, c \in 0..MaxIndex : handle_poll_answer(chat, r, c)
  \/ \E u \in Users : stats_command(u)
  \/ \E u \in Users : add_quiz(u)
  \/ \E u \in Users : cancel(u)

SpecPlay == Init /\ [][NextPlay]_vars

\* ------------------------------------------ update_user_stats on its own
\* one call update_user_stats(r, user_name, is_correct)
update_stats(r, user_name, is_correct) ==
  /\ r \in DOMAIN load_users(users_file) => load_users(users_file)[r].total < MaxTotal
  /\ users_file' = update_user_stats(users_file, r, user_name, is_correct)
  /\ UNCHANGED << questions_file, conversations, user_data, events, trail, call,
                  assigned, rounds, tasks >>

\* calls of update_user_stats between the updates the handlers of SpecPlay take
NextStats ==
  \/ \E r \in Responders, user_name \in Names, is_correct \in BOOLEAN :
       update_stats(r, user_name, is_correct)
  \/ NextPlay

SpecStats == Init /\ [][NextStats]_vars

\* ------------------------------------------------------------- properties
\* the records in the file (none while the file does not exist)
StoredQuestions == IF questions_file = None THEN <<>> ELSE Val(questions_file)

\* the largest id of a list of records, 0 for the empty list
LargestId(questions) ==
  IF questions = <<>> THEN 0
  ELSE CHOOSE m \in Ids(questions) : \A x \in Ids(questions) : x <= m

\* a step that stores one more record than the handler loaded, and that record
RecordAdded ==
  /\ questions_file' # None
  /\ Len(Val(questions_file')) = Len(load_questions(questions_file)) + 1
AddedRecord == Val(questions_file')[Len(Val(questions_file'))]

\* The lines of a text by position: line k lies between the (k-1)th and the
\* kth newline character.
NewlinePositions(text) == {k \in DOMAIN text : text[k] = NL}
NthNewline(text, n) ==
  CHOOSE k \in NewlinePositions(text) :
    Cardinality({j \in NewlinePositions(text) : j <= k}) = n
LineCount(text) == Cardinality(NewlinePositions(text)) + 1
LineOf(text, n) ==
  SubSeq(text,
         IF n = 1 THEN 1 ELSE NthNewline(text, n - 1) + 1,
         IF n = LineCount(text) THEN Len(text) ELSE NthNewline(text, n) - 1)
\* a line without the blanks before its first and after its last other character
Trimmed(line) ==
  LET inked == {k \in DOMAIN line : line[k] # SP}
  IN  IF inked = {} THEN <<>>
      ELSE SubSeq(line, CHOOSE k \in inked : \A j \in inked : k <= j,
                        CHOOSE k \in inked : \A j \in inked : j <= k)
NotEmpty(line) == line # <<>>
TrimmedNonBlankLines(text) ==
  SelectSeq([n \in 1..LineCount(text) |-> Trimmed(LineOf(text, n))], NotEmpty)

\* the user presses the button p of an answer_<i> keyboard, whichever handler takes it
SelectionEvent(u, p) == get_answer(u, p) \/ button_callback(u, p)

\* the user sends a text message that is not a command, whichever handler takes it
TextEvent(u) ==
  \/ \E q \in QuestionTexts : get_question(u, q) \/ handle_edit_text(u, q)
  \/ \E t \in OptionTexts : get_options(u, t) \/ handle_edit_options(u, t)
  \/ \E url \in Urls, quiz_data \in {None} \cup {Some(d) : d \in ImportDrafts} :
       handle_quiz_url(u, url, quiz_data)
  \/ handle_message(u, None)

\* C1: every stored question has at least two options and an answer index
\* that is an index of one of its options, in every reachable state (also
\* after a press of a button of an earlier keyboard).
C1_StoredAnswerIndexesAnOption ==
  \A k \in DOMAIN StoredQuestions :
    LET q == StoredQuestions[k]
    IN  /\ q.options # None
        /\ Len(Val(q.options)) >= 2
        /\ 0 <= q.answer /\ q.answer < Len(Val(q.options))

\* C2: /add, then a question text q, then an options text with at least two
\* non-blank lines, then the selection of one of the options, index i: the
\* file is the previous list plus the one record {previous largest id + 1, q,
\* the trimmed non-blank lines in order, i, "User Created"}, the user's
\* scratch is empty and add_quiz_conv has ended.
C2_EndToEndCreate ==
  [][\A u \in Users, p \in Buttons :
       (/\ trail[u].flow = "add" /\ trail[u].step = "options"
        /\ p.k = "answer" /\ p.a < Len(TrimmedNonBlankLines(Val(trail[u].text)))
        /\ SelectionEvent(u, p))
       => /\ questions_file' = Some(Append(load_questions(questions_file),
                 [id |-> LargestId(load_questions(questions_file)) + 1,
                  question |-> trail[u].q,
                  options |-> Some(TrimmedNonBlankLines(Val(trail[u].text))),
                  answer |-> p.a,
                  category |-> "User Created"]))
          /\ user_data'[u] = EmptyUserData
          /\ conversations'[u].add = END]_vars

\* C2 witness: the create dialog was walked through with the padded
\* three-option text and ended with the record stored.
C2_Witness ==
  \E u \in Users :
    /\ trail[u].flow = "add" /\ trail[u].step = "selected"
    /\ Len(Val(trail[u].text)) > 3
    /\ Val(trail[u].sel) < Len(TrimmedNonBlankLines(Val(trail[u].text)))
    /\ conversations[u].add = END
    /\ user_data[u] = EmptyUserData
    /\ StoredQuestions # <<>>
    /\ LET q == StoredQuestions[Len(StoredQuestions)]
       IN  /\ q.question = trail[u].q
           /\ q.options = Some(<< <<"a">>, <<"b">>, <<"c">> >>)
           /\ q.answer = Val(trail[u].sel)

\* C3: an id that a stored question has had is never given to a question
\* created later, also when that question was deleted in between.
C3_IdsNeverReused ==
  [][RecordAdded => AddedRecord.id \notin assigned]_vars

\* C4: the id of a new record is 1 when the list is empty and otherwise the
\* largest id among the records stored at that moment plus one, whatever was
\* stored or deleted before.
C4_NextIdFromCurrentContents ==
  [][RecordAdded =>
       AddedRecord.id = IF load_questions(questions_file) = <<>> THEN 1
                        ELSE LargestId(load_questions(questions_file)) + 1]_vars

\* C4 witness: ids 1, 2 and 5 were stored with 3 and 4 deleted, and the next
\* record got 6.
C4_Witness ==
  /\ Ids(StoredQuestions) = {1, 2, 5, 6}
  /\ assigned = 1..6

\* C5: stored ids are positive and no two stored records have the same id.
C5_IdsPositiveAndUnique ==
  \A k \in DOMAIN StoredQuestions :
    /\ StoredQuestions[k].id \in Nat \ {0}
    /\ \A j \in DOMAIN StoredQuestions :
         StoredQuestions[j].id = StoredQuestions[k].id => j = k

\* C5 witness: a record created after a deletion stands next to an older one.
C5_Witness ==
  /\ Len(StoredQuestions) = 2
  /\ StoredQuestions[1].category = "Geography"
  /\ StoredQuestions[2].category \in {"User Created", "Converted Poll"}
  /\ assigned = {1, 2}

\* C6: in state OPTIONS of add_quiz_conv a text with fewer than two non-blank
\* lines is answered with the prompt again: the conversation stays in
\* OPTIONS (so the next text is treated the same way), the step sets no
\* quiz_options (the scratch is as it was) and the file is unchanged.
C6_TooFewOptionsRePrompts ==
  [][\A u \in Users, t \in OptionTexts :
       (/\ conversations[u].add = OPTIONS
        /\ Len(TrimmedNonBlankLines(t)) < 2
        /\ get_options(u, t))
       => /\ conversations'[u] = conversations[u]
          /\ user_data'[u] = user_data[u]
          /\ questions_file' = questions_file]_vars

\* C6 witness: the single-option text was sent after the question text and
\* the dialog still waits for the options.
C6_Witness ==
  \E u \in Users :
    /\ trail[u].flow = "add" /\ trail[u].step = "question"
    /\ trail[u].text # None
    /\ Len(TrimmedNonBlankLines(Val(trail[u].text))) = 1
    /\ conversations[u].add = OPTIONS
    /\ user_data[u].quiz_options = None

\* C7: for every text, the list get_options computes and the list
\* handle_edit_options computes are both the lines of the text in order, each
\* trimmed, without the lines that are empty after trimming.
C7_OptionsAreTrimmedNonBlankLines ==
  call.fn # "none" => call.result = TrimmedNonBlankLines(call.text)

\* C7 witness: handle_edit_options parsed a text with a blank line and a padded
\* line into two options.
C7_Witness ==
  /\ call.fn = "handle_edit_options"
  /\ call.text = << "a", NL, NL, "b", SP >>
  /\ call.result = << <<"a">>, <<"b">> >>

Dialogs == {"add", "clone", "edit"}

\* the states in which a dialog waits for an input
NonTerminal(c) ==
  IF c = "add" THEN {QUESTION, OPTIONS, ANSWER}
  ELSE IF c = "clone" THEN {CLONE_URL, ANSWER}
  ELSE {EDIT_QUESTION, EDIT_OPTIONS, EDIT_ANSWER}

\* c is the dialog the user is in
InDialog(u, c) ==
  /\ conversations[u][c] \in NonTerminal(c)
  /\ \A d \in Dialogs \ {c} : conversations[u][d] = END

C9_ManualEntryAfterImportFailure ==
  [][\A u \in Users :
       (trail[u].flow = "clone" /\ trail[u].step = "failed" /\ TextEvent(u))
       => /\ user_data'[u].quiz_question # None
          /\ \E c \in Dialogs : conversations'[u][c] = OPTIONS]_vars

\* the import of the url by /clone <url> or by the text sent in state CLONE_URL
\* returned the draft d
ImportSuccess(u, d) ==
  \E url \in Urls : clone_quiz(u, Some(url), Some(d)) \/ handle_quiz_url(u, url, Some(d))

PollSelectionEvent(u, p) == handle_poll_to_quiz(u, p) \/ button_callback(u, p)

\* C11: a forwarded poll with question q and options O, then the selection
\* of index i: the file is the previous list plus the one record {next id,
\* q, O, i, "Converted Poll"}, poll_to_quiz is removed from the scratch and
\* the buttons of the menu sent with the preview carry the new id.
C11_PollConversion ==
  [][\A u \in Users, p \in Buttons :
       (/\ trail[u].flow = "poll" /\ trail[u].step = "received"
        /\ p.k = "polltoquiz"
        /\ PollSelectionEvent(u, p))
       => LET new_id == LargestId(load_questions(questions_file)) + 1
          IN  /\ questions_file' = Some(Append(load_questions(questions_file),
                     [id |-> new_id,
                      question |-> Some(Val(trail[u].draft).question),
                      options |-> Some(Val(trail[u].draft).options),
                      answer |-> p.a,
                      category |-> "Converted Poll"]))
              /\ user_data'[u].poll_to_quiz = None
              /\ trail'[u].menu # {}
              /\ \A b \in trail'[u].menu :
                   /\ b.a = new_id
                   /\ b.k \in {"edit_question", "edit_options", "edit_answer", "test_quiz"}
              /\ \A k \in {"edit_question", "edit_options", "edit_answer"} :
                   \E b \in trail'[u].menu : b.k = k]_vars

\* C11 witness: a poll was converted into the second stored question and the
\* menu for question 2 was sent.
C11_Witness ==
  \E u \in Users :
    /\ trail[u].flow = "poll" /\ trail[u].step = "converted"
    /\ Len(StoredQuestions) = 2
    /\ StoredQuestions[2].id = 2
    /\ StoredQuestions[2].category = "Converted Poll"
    /\ StoredQuestions[2].answer = Val(trail[u].sel)
    /\ user_data[u].poll_to_quiz = None
    /\ Button("edit_answer", 2, 0) \in trail[u].menu

\* the user sends the text new_text as a message that is not a command,
\* whichever handler takes it
QuestionTextEvent(u, new_text) ==
  \/ handle_edit_text(u, new_text)
  \/ get_question(u, new_text)
  \/ handle_message(u, None)

\* the stored record that has the id of the edit target
TargetRecord(u) ==
  LET before == load_questions(questions_file)
  IN  before[CHOOSE k \in DOMAIN before : before[k].id = Val(trail[u].target)]

\* the step leaves the list with the target record replaced by changed: every
\* record keeps its place, the records with another id are as they were
OnlyTargetChanged(u, changed) ==
  LET before == load_questions(questions_file)
  IN  /\ \E k \in DOMAIN before : before[k].id = Val(trail[u].target)
      /\ questions_file' # None
      /\ Len(Val(questions_file')) = Len(before)
      /\ \A k \in DOMAIN before :
           Val(questions_file')[k] =
             IF before[k].id = Val(trail[u].target) THEN changed ELSE before[k]

OptionsTextEvent(u, t) ==
  \/ handle_edit_options(u, t)
  \/ get_options(u, t)
  \/ handle_message(u, None)

EditAnswerEvent(u, p) == handle_edit_answer(u, p) \/ button_callback(u, p)

\* C14: in EDIT_ANSWER the selection of index j on the keyboard sent for the
\* target record replaces the answer of that record by j and nothing else:
\* its other fields and the other records are as before, the list is saved
\* and the edit dialog ends.
C14_EditAnswerChangesOnlyTheAnswer ==
  [][\A u \in Users, p \in Buttons :
       (/\ trail[u].flow = "edit" /\ trail[u].step = "edit_answer"
        /\ p.k = "editanswer" /\ p.a = Val(trail[u].target)
        /\ p.b < Len(Val(TargetRecord(u).options))
        /\ EditAnswerEvent(u, p))
       => /\ OnlyTargetChanged(u, [TargetRecord(u) EXCEPT !.answer = p.b])
          /\ conversations'[u].edit = END]_vars

\* C14 witness: the answer of the second sample question was changed from 1
\* to 0, the first sample question is as seeded.
C14_Witness ==
  \E u \in Users :
    /\ trail[u].flow = "edit" /\ trail[u].step = "updated"
    /\ trail[u].target = Some(2)
    /\ trail[u].sel = Some(0)
    /\ conversations[u].edit = END
    /\ StoredQuestions = << SeedQuestions[1], [SeedQuestions[2] EXCEPT !.answer = 0] >>

\* the user presses the button p of a menu, whichever handler takes it
MenuEvent(u, p) == handle_edit_selection(u, p) \/ button_callback(u, p)

\* the state of edit_poll_quiz_conv that belongs to a button of the menu
EditStateOf(k) ==
  IF k = "edit_question" THEN EDIT_QUESTION
  ELSE IF k = "edit_options" THEN EDIT_OPTIONS
  ELSE EDIT_ANSWER

\* C15: the edit menu works on both entry paths. With the id in the payload
\* (menu sent after a poll conversion): the press of edit_question_<id>,
\* edit_options_<id> or edit_answer_<id> moves the dialog to EDIT_QUESTION,
\* EDIT_OPTIONS or EDIT_ANSWER for that id. With the id in the scratch:
\* /edit <id> for a stored question keeps the question under edit_question
\* and offers the menu.
C15_EditMenuOnBothEntryPaths ==
  [][\A u \in Users :
       /\ \A p \in Buttons :
            (/\ trail[u].flow = "poll" /\ trail[u].step = "converted"
             /\ p \in trail[u].menu /\ p.k # "test_quiz"
             /\ conversations[u].edit = END
             /\ MenuEvent(u, p))
            => /\ conversations'[u].edit = EditStateOf(p.k)
               /\ user_data'[u].editing # None
               /\ Val(user_data'[u].editing).question_id = p.a
       /\ \A id \in 1..MaxId :
            (/\ get_question_by_id(load_questions(questions_file), id) # None
             /\ edit_command(u, Some(id)))
            => /\ user_data'[u].edit_question =
                    get_question_by_id(load_questions(questions_file), id)
               /\ trail'[u].menu # {}]_vars

\* the questions the program reads from the file before and after the step
QuestionsBefore == load_questions(questions_file)
QuestionsAfter == load_questions(questions_file')

\* C16: a question leaves the store only in a step that handles the press of
\* confirm_remove_<id> for its id, and such a step removes no question with
\* another id; /remove with or without an id and the
\* press of remove_<id> never change the stored questions, and the press of
\* cancel_remove leaves the file as it is.
C16_RemoveOnlyOnConfirmation ==
  [][/\ \A id \in Ids(QuestionsBefore) \ Ids(QuestionsAfter) :
          \E u \in Users : button_callback(u, Button("confirm_remove", id, 0))
     /\ \A u \in Users, id \in 1..MaxId :
          button_callback(u, Button("confirm_remove", id, 0))
            => Ids(QuestionsBefore) \ Ids(QuestionsAfter) \subseteq {id}
     /\ \A u \in Users :
          /\ \A args \in {None} \cup {Some(id) : id \in 1..MaxId} :
               remove_quiz(u, args) => QuestionsAfter = QuestionsBefore
          /\ \A id \in 1..MaxId :
               button_callback(u, Button("remove", id, 0)) => QuestionsAfter = QuestionsBefore
          /\ button_callback(u, Button("cancel_remove", 0, 0))
               => questions_file' = questions_file]_vars

\* C16 witness: the removal of the second sample question was confirmed and
\* only the first is left.
C16_Witness ==
  /\ questions_file = Some(<< SeedQuestions[1] >>)
  /\ assigned = {1, 2}
  /\ events = 1

\* C17: delete_question_by_id with an id that no stored record has returns
\* False and leaves the stored questions as they are; with an id that a
\* stored record has it returns True, the list is one record shorter, the
\* other records are as before and in the same order, and no record has the
\* id afterwards.
C17_DeleteById ==
  [][\A id \in 1..MaxStoreId :
       delete_question(id)
       => IF id \notin Ids(QuestionsBefore)
          THEN /\ call'.result = << FALSE >>
               /\ QuestionsAfter = QuestionsBefore
          ELSE /\ call'.result = << TRUE >>
               /\ Len(QuestionsAfter) = Len(QuestionsBefore) - 1
               /\ \E k \in DOMAIN QuestionsBefore :
                    /\ QuestionsBefore[k].id = id
                    /\ QuestionsAfter = SubSeq(QuestionsBefore, 1, k - 1)
                                        \o SubSeq(QuestionsBefore, k + 1, Len(QuestionsBefore))
               /\ \A j \in DOMAIN QuestionsAfter : QuestionsAfter[j].id # id]_vars

\* C17 witness: question 2 was deleted from between questions 1 and 3.
C17_Witness ==
  /\ call.fn = "delete_question_by_id"
  /\ call.text = << 2 >>
  /\ call.result = << TRUE >>
  /\ Len(StoredQuestions) = 2
  /\ StoredQuestions[1].id = 1
  /\ StoredQuestions[2].id = 3

\* the rows of the user-stats store
StoredRows == IF users_file = None THEN [r \in {} |-> 0] ELSE Val(users_file)

TotalOf(rows, r) == IF r \in DOMAIN rows THEN rows[r].total ELSE 0

CorrectOf(rows, r) == IF r \in DOMAIN rows THEN rows[r].correct ELSE 0

\* C18: every answer event with responder r and chosen index c adds exactly 1
\* to r's total, adds 1 to r's correct if c is the correct index of the round
\* in flight and 0 otherwise, creates r's row from (0, 0) if it was absent,
\* and leaves the rows of all other users unchanged.
C18_AnswerIsCounted ==
  [][\A chat \in Chats, r \in Responders, c \in 0..MaxIndex :
       handle_poll_answer(chat, r, c) =>
         /\ r \in DOMAIN StoredRows'
         /\ TotalOf(StoredRows', r) = TotalOf(StoredRows, r) + 1
         /\ CorrectOf(StoredRows', r) = CorrectOf(StoredRows, r)
               + (IF c = Val(rounds[chat]).answer THEN 1 ELSE 0)
         /\ \A o \in Responders \ {r} :
               /\ o \in DOMAIN StoredRows' <=> o \in DOMAIN StoredRows
               /\ o \in DOMAIN StoredRows => StoredRows'[o] = StoredRows[o]]_vars

\* C19: round state is independent per chat: while a round is in flight in a
\* chat, the index that an answer to that chat's poll is compared with is the
\* correct index of the question dispatched to that chat, whatever rounds
\* were started in other chats.
C19_RoundStatePerChat ==
  \A chat \in Chats, u \in Users :
    rounds[chat] # None => correct_option(u) = Some(Val(rounds[chat]).answer)

RowsWellFormed ==
  \A r \in DOMAIN StoredRows :
    /\ StoredRows[r].correct >= 0
    /\ StoredRows[r].total >= 0
    /\ StoredRows[r].total >= StoredRows[r].correct

RowsKept == \A r \in DOMAIN StoredRows : r \in DOMAIN StoredRows'

\* C20: in every reachable state every row of the user-stats store has
\* correct >= 0, total >= 0 and total >= correct, and no step removes a row
\* that exists.
C20_RowsWellFormedAndKept == []RowsWellFormed /\ [][RowsKept]_vars

\* both users have a row, one with right and wrong answers counted, and a
\* round was played and answered after the rows were written
C20_Witness ==
  /\ DOMAIN StoredRows = Responders
  /\ StoredRows["u1"].total = 3 /\ StoredRows["u1"].correct = 1
  /\ StoredRows["u2"].total = 1 /\ StoredRows["u2"].correct = 1
  /\ rounds["c1"] # None
  /\ events = 3

\* the target of the edit dialog of u is not usable: the editing scratch is
\* missing or no stored question has its id
EditTargetMissing(u) ==
  \/ user_data[u].editing = None
  \/ Val(user_data[u].editing).question_id \notin Ids(QuestionsBefore)

EndsUnchanged(u) == conversations'[u].edit = END /\ QuestionsAfter = QuestionsBefore

\* the not-found cases of the two text states of the edit dialog and of the
\* poll-conversion selection
NotFoundInTextStates ==
  \A u \in Users :
    /\ \A t \in QuestionTexts :
         handle_edit_text(u, t) /\ EditTargetMissing(u) => EndsUnchanged(u)
    /\ \A t \in OptionTexts :
         handle_edit_options(u, t) /\ Len(ParseNewOptions(t)) >= 2 /\ EditTargetMissing(u)
           => EndsUnchanged(u)
    /\ \A p \in Buttons :
         \* the conversion is no state of a ConversationHandler: nothing is awaited
         handle_poll_to_quiz(u, p) /\ user_data[u].poll_to_quiz = None
           => /\ QuestionsAfter = QuestionsBefore
              /\ conversations' = conversations
              /\ user_data'[u].poll_to_quiz = None

\* the not-found case of the answer state of the edit dialog
NotFoundInEditAnswer ==
  \A u \in Users, p \in Buttons :
    handle_edit_answer(u, p) /\ p.a \notin Ids(QuestionsBefore) => EndsUnchanged(u)

C21_TextStatesOnly == [][NotFoundInTextStates]_vars

\* C21: in EditQuestionText, EditOptions, EditAnswer and the poll-conversion
\* selection, when the target question is no longer stored, the editing
\* scratch is missing or the poll draft is missing, the dialog ends and the
\* stored questions are unchanged.
C21_NotFoundEndsTheDialog == [][NotFoundInTextStates /\ NotFoundInEditAnswer]_vars

\* the success acknowledgments of create (line 561) and delete (line 972)
SuccessTexts == {<< "Quiz question created successfully" >>,
                 << "Quiz question has been deleted" >>}

\* C22: when the write of the question store fails during create
\* finalization or during a confirmed delete, the user receives a failure
\* acknowledgment, never a success message, and the stored questions are what
\* they were before the operation.
C22_WriteFailureIsReported ==
  [][\A outcome \in WriteOutcomes :
       \/ create_write_fails(outcome)
       \/ \E question_id \in 1..MaxStoreId : delete_write_fails(question_id, outcome)
       => call'.result \notin SuccessTexts /\ QuestionsAfter = QuestionsBefore]_vars

\* the dialog whose selection handler took a malformed payload is over
MalformedEndsDialog(u, k) ==
  MalformedHandler(u, k)[2] # "none" => conversations'[u][MalformedHandler(u, k)[2]] = END

\* C23: a payload with a non-numeric id or index, given to any selection
\* handler, ends the dialog that handler belongs to and leaves the stored
\* questions unchanged.
C23_MalformedPayloadEndsTheDialog ==
  [][\A u \in Users, k \in MalformedKinds :
       malformed_selection(u, k)
         => MalformedEndsDialog(u, k) /\ QuestionsAfter = QuestionsBefore]_vars

\* C24: when two sessions edit two different questions and their handlers
\* are interleaved at the awaits, what each handler wrote to its question is
\* what the store holds for that question, also after the other handler
\* wrote: once both are done the store contains both edits.
C24_NoLostUpdate ==
  \A s \in Sessions :
    tasks[s].wrote # None
      => get_question_by_id(StoredQuestions, EditTarget(s)) = tasks[s].wrote

\* C24 witness: both handlers began on the unchanged sample questions, so
\* each wrote after the other had begun, both are done and both answers
\* differ from the sample answers.
C24_Witness ==
  /\ \A s \in Sessions : tasks[s].pc = "done" /\ tasks[s].began = SeedQuestions
  /\ StoredQuestions[1].answer = 0
  /\ StoredQuestions[2].answer = 0

\* C25: /play on an empty store dispatches no poll and records or changes no
\* round state; on a non-empty store the remembered question id and correct
\* index are those of one stored record, and the poll that is dispatched
\* carries that record.
C25_StartRound ==
  [][\A u \in Users, chat \in Chats, k \in 1..MaxId :
       play(u, chat, k) =>
         IF QuestionsBefore = << >>
         THEN rounds' = rounds /\ user_data' = user_data /\ QuestionsAfter = << >>
         ELSE \E j \in DOMAIN QuestionsBefore :
                /\ user_data'[u].quiz_correct_answer = Some(QuestionsBefore[j].answer)
                /\ user_data'[u].quiz_question_id = Some(QuestionsBefore[j].id)
                /\ \/ rounds' = rounds
                   \/ rounds' = [rounds EXCEPT ![chat] =
                        Some([starter |-> u, id |-> QuestionsBefore[j].id,
                              answer |-> QuestionsBefore[j].answer])]]_vars

\* C25 witness: the second sample question was dispatched to c2 after the
\* first had been dispatched to c1, and its index is the remembered one.
C25_Witness ==
  /\ rounds["c1"] = Some([starter |-> "u1", id |-> 1, answer |-> 2])
  /\ rounds["c2"] = Some([starter |-> "u1", id |-> 2, answer |-> 1])
  /\ user_data["u1"].quiz_correct_answer = Some(1)
  /\ user_data["u1"].quiz_message_id = Some("c2")

ExampleRecords(questions) ==
  /\ Len(questions) = 2
  /\ questions[1].id = 1 /\ questions[1].answer = 2
  /\ questions[1].question = Some("What is the capital of France?")
  /\ questions[2].id = 2 /\ questions[2].answer = 1
  /\ questions[2].question = Some("Which planet is known as the Red Planet?")

\* C27: a read with no file yields and persists the two example records; a
\* read of a file that exists, also of one that holds no question any more,
\* yields the file's content and leaves the file as it is.
C27_SeedOnlyWithoutFile ==
  [][read_questions =>
       IF questions_file = None
       THEN /\ ExampleRecords(call'.result)
            /\ questions_file' # None
            /\ Val(questions_file') = call'.result
       ELSE /\ call'.result = Val(questions_file)
            /\ questions_file' = questions_file]_vars

\* C27 witness: the store was read after every question, the two examples
\* included, had been deleted, and the read returned no question.
C27_Witness ==
  /\ call.fn = "load_questions"
  /\ call.result = << >>
  /\ questions_file = Some(<< >>)
  /\ {1, 2} \subseteq assigned

\* C28: after every answer counted for a user, the name in that user's row
\* is the display name that came with that answer.
C28_NameIsLastSeen ==
  [][\A r \in Responders, user_name \in Names, is_correct \in BOOLEAN :
       update_stats(r, user_name, is_correct)
         => r \in DOMAIN StoredRows' /\ StoredRows'[r].name = user_name]_vars

\* C29: an import call that never returns does not freeze event handling:
\* an update that is queued for a session is eventually handled, whatever
\* the import call of another session does.
C29_HangDoesNotFreeze ==
  \A s \in Sessions :
    (tasks[s].pc = "queued" /\ tasks[s].update # Some("clone_url"))
      ~> (tasks[s].pc # "queued")

\* the last event of u was the answer selection that completed a create or
\* clone dialog: the record it stored is the last one and the selected
\* index is one of its options
DialogCompleted(u) ==
  /\ trail[u].flow \in {"add", "clone"}
  /\ trail[u].step = "selected"
  /\ StoredQuestions # << >>
  /\ LET q == StoredQuestions[Len(StoredQuestions)]
     IN  /\ q.options # None
         /\ q.answer = Val(trail[u].sel)
         /\ q.answer < Len(Val(q.options))

\* the last event of u was the selection that converted a forwarded poll
PollConverted(u) == trail[u].flow = "poll" /\ trail[u].step = "converted"

\* the same selection event is delivered again and adds nothing
RedeliveryAddsNothing(u, p) ==
  /\ (DialogCompleted(u) /\ p.k = "answer" /\ trail[u].sel = Some(p.a)
        /\ SelectionEvent(u, p))
       => QuestionsAfter = QuestionsBefore
  /\ (PollConverted(u) /\ p.k = "polltoquiz" /\ trail[u].sel = Some(p.a)
        /\ PollSelectionEvent(u, p))
       => QuestionsAfter = QuestionsBefore

\* no other dialog of u waits for an answer selection
OneDialog(u) == conversations[u].add # ANSWER /\ conversations[u].clone # ANSWER

C30_OneDialogOnly ==
  [][\A u \in Users, p \in Buttons : OneDialog(u) => RedeliveryAddsNothing(u, p)]_vars

\* C30: a draft is consumed at most once: when the answer selection that
\* completed a create or clone dialog, or that converted a forwarded poll,
\* is delivered a second time, no record is added.
C30_DraftConsumedOnce ==
  [][\A u \in Users, p \in Buttons : RedeliveryAddsNothing(u, p)]_vars

\* the round state /play recorded for u: the remembered correct index and
\* question id
RoundState(u) ==
  << user_data[u].quiz_correct_answer, user_data[u].quiz_question_id >>

\* an authoring dialog of u is completed or cancelled
AuthoringEnds(u) ==
  \/ cancel(u)
  \/ \E p \in Buttons : get_answer(u, p)
  \/ \E q \in QuestionTexts : handle_edit_text(u, q)
  \/ \E t \in OptionTexts : handle_edit_options(u, t)
  \/ \E p \in Buttons : handle_edit_answer(u, p)

\* C31: completing or cancelling an authoring dialog leaves the round state
\* of the same user as it was: the remembered correct index and question id
\* are the same afterwards.
C31_AuthoringKeepsRoundState ==
  [][\A u \in Users : AuthoringEnds(u) => RoundState(u)' = RoundState(u)]_vars

\* ------------------------------------- the body of handle_poll_answer
\* answer.option_ids[0] if answer.option_ids else None (line 462)
selected_option(option_ids) ==
  IF option_ids # << >> THEN Some(option_ids[1]) ELSE None

\* context.user_data.get("quiz_correct_answer") in an update of user r
\* (line 465): None for a user who has no such key
quiz_correct_answer(r) ==
  IF r \in Users THEN user_data[r].quiz_correct_answer ELSE None

\* is_correct = (selected_option == correct_option) (line 468)
is_correct(option_ids, r) == selected_option(option_ids) = quiz_correct_answer(r)

\* the votes a user can send for one poll: one option, or none when the
\* vote is retracted
OptionIds == {<< >>} \cup {<< c >> : c \in 0..MaxIndex}

\* lines 458-472 for an update whose poll_answer is the vote of responder r
\* on the poll that was sent to chat: what the function does when it is
\* called with the kind of update it reads. A vote is retracted only after
\* it was given.
poll_answer(chat, r, user_name, option_ids) ==
  /\ rounds[chat] # None
  /\ option_ids = << >> => r \in DOMAIN load_users(users_file)
  /\ r \in DOMAIN load_users(users_file) => load_users(users_file)[r].total < MaxTotal
  /\ events < MaxEvents
  /\ events' = events + 1
  /\ users_file' = update_user_stats(users_file, r, user_name, is_correct(option_ids, r))
  /\ UNCHANGED << questions_file, conversations, user_data, trail, call,
                  assigned, rounds, tasks >>

\* rounds are started, votes arrive at the function, a create dialog is
\* opened and cancelled
NextAnswer ==
  \/ \E u \in Users, chat \in Chats, k \in 1..MaxId : play(u, chat, k)
  \/ \E chat \in Chats, r \in Responders, user_name \in Names, option_ids \in OptionIds :
       poll_answer(chat, r, user_name, option_ids)
  \/ \E u \in Users : add_quiz(u)
  \/ \E u \in Users : cancel(u)

SpecAnswer == Init /\ [][NextAnswer]_vars

C33_AnswerJudgedAgainstItsRound ==
  [][\A chat \in Chats, r \in Users, user_name \in Names, c \in 0..MaxIndex :
       /\ poll_answer(chat, r, user_name, << c >>)
       /\ Val(rounds[chat]).starter = r
       /\ quiz_correct_answer(r) # None
       => CorrectOf(StoredRows', r) = CorrectOf(StoredRows, r)
            + (IF c = Val(rounds[chat]).answer THEN 1 ELSE 0)]_vars

\* ------------------------------------------- remove prompts that stay open
\* Every /remove message is a session of its own: pressing remove_<id> turns
\* it into the confirmation prompt of that question, whose accept button
\* carries confirm_remove_<id> until it is pressed.
\* the remove_ branch of button_callback (979-1006) on message s
remove_prompt(s, question_id) ==
  LET question == get_question_by_id(load_questions(questions_file), question_id) IN
  /\ tasks[s].pc = "idle"
  /\ events < MaxEvents
  /\ events' = events + 1
  /\ Store(FileAfterLoad(questions_file))
  /\ IF question = None
     THEN UNCHANGED tasks  \* not found
     ELSE tasks' = [tasks EXCEPT ![s] = [pc |-> "prompt", began |-> << Val(question) >>,
                                         wrote |-> None, update |-> Some(question_id)]]
  /\ UNCHANGED << conversations, user_data, trail, call, users_file, rounds >>

\* the confirm_remove_ branch (961-977) for the accept button of prompt s
accept_remove(s) ==
  LET question_id == Val(tasks[s].update) IN
  /\ tasks[s].pc = "prompt"
  /\ events < MaxEvents
  /\ events' = events + 1
  /\ IF get_question_by_id(load_questions(questions_file), question_id) = None
     THEN Store(FileAfterLoad(questions_file))  \* not found
     ELSE Store(delete_question_by_id(questions_file, question_id).file)
  /\ tasks' = [tasks EXCEPT ![s] = NoTask]
  /\ UNCHANGED << conversations, user_data, trail, call, users_file, rounds >>

\* the cancel_remove branch (957-959) for the other button of prompt s
keep_question(s) ==
  /\ tasks[s].pc = "prompt"
  /\ events < MaxEvents
  /\ events' = events + 1
  /\ tasks' = [tasks EXCEPT ![s] = NoTask]
  /\ UNCHANGED << questions_file, assigned, conversations, user_data, trail, call,
                  users_file, rounds >>

\* a create dialog is completed with text q (get_answer, 543-557)
create_question(q) ==
  /\ get_next_question_id(load_questions(questions_file)) <= MaxId + 1
  /\ events < MaxEvents
  /\ events' = events + 1
  /\ Store(AppendNew(questions_file, Some(q), Some(<< <<"a">>, <<"b">> >>), 0, "User Created"))
  /\ UNCHANGED << conversations, user_data, trail, call, users_file, rounds, tasks >>

NextRemove ==
  \/ \E s \in Sessions, question_id \in 1..(MaxId + 1) : remove_prompt(s, question_id)
  \/ \E s \in Sessions : accept_remove(s)
  \/ \E s \in Sessions : keep_question(s)
  \/ \E q \in QuestionTexts : create_question(q)

SpecRemove == Init /\ [][NextRemove]_vars

\* the records of list a that are not in list b
RecordsGone(a, b) ==
  {a[i] : i \in DOMAIN a} \ {b[i] : i \in DOMAIN b}

\* C34: an accepted remove confirmation deletes only the question that its
\* prompt showed: every record that is gone after the accept is the record
\* that was read when the prompt was shown, so a question created after the
\* prompt was shown is never deleted by it.
C34_AcceptDeletesShownQuestion ==
  [][\A s \in Sessions :
       accept_remove(s) =>
         RecordsGone(QuestionsBefore, QuestionsAfter) \subseteq {tasks[s].began[1]}]_vars

\* ---------------------------------------------------------- failing reads
\* open() or json.load() of an existing questions file raises (lines 43-44)
\* and the except branch of load_questions returns [] (67-69), or the file
\* is read
ReadOutcomes == {"read", "read failed"}

LoadOutcome(file, outcome) ==
  IF outcome = "read failed" THEN << >> ELSE load_questions(file)

\* the end of get_answer (543-557) and of handle_poll_to_quiz (1556-1569):
\* get_next_question_id loads the file, then the handler loads it again,
\* appends and saves; idread and listread say how the two reads went
create_reads(category, idread, listread) ==
  LET question_id == get_next_question_id(LoadOutcome(questions_file, idread))
      new_question == [id |-> question_id, question |-> Some("q1"),
                       options |-> Some(<< <<"a">>, <<"b">> >>), answer |-> 0,
                       category |-> category]
      questions == LoadOutcome(questions_file, listread)
  IN  /\ questions_file = None => idread = "read" /\ listread = "read"
      /\ events < MaxEvents
      /\ events' = events + 1
      /\ Store(save_questions(Append(questions, new_question)))
      /\ UNCHANGED << conversations, user_data, trail, call, users_file, rounds, tasks >>

NextRead ==
  \/ \E category \in {"User Created", "Converted Poll"},
        idread \in ReadOutcomes, listread \in ReadOutcomes :
       create_reads(category, idread, listread)
  \/ \E question_id \in 1..MaxStoreId : confirm_remove(question_id)

SpecRead == Init /\ [][NextRead]_vars

\* C35: the finalization of a create, clone or poll conversion only appends:
\* the records stored before it are the first records stored after it, in
\* the same order and unchanged, also when a read of the file fails during
\* the operation.
C35_FinalizationOnlyAppends ==
  [][\A category \in {"User Created", "Converted Poll"},
        idread \in ReadOutcomes, listread \in ReadOutcomes :
       create_reads(category, idread, listread) =>
         /\ Len(QuestionsAfter) = Len(QuestionsBefore) + 1
         /\ SubSeq(QuestionsAfter, 1, Len(QuestionsBefore)) = QuestionsBefore]_vars

\* C36: two dialogs of one user that are active at the same time do not
\* interfere: whatever the dialogs of a user do, every stored record has a
\* question text and options.
C36_NoRecordWithMissingParts ==
  \A k \in DOMAIN StoredQuestions :
    /\ StoredQuestions[k].question # None
    /\ StoredQuestions[k].options # None

\* ------------------------------------------------ two users authoring
\* Two users, each in a private chat with the bot, both after /add. The
\* ConversationHandlers keep one state per (chat, user) and
\* context.user_data is the dictionary of the user of the update.
TwoUsers == {"u1", "u2"}

\* what each user types: the texts differ, so a stored record shows whose
\* scratch it was built from
QuestionOf(u) == IF u = "u1" THEN "q1" ELSE "q2"

OptionsTextOf(u) ==
  IF u = "u1" THEN <<"a", NL, "b">> ELSE <<SP, "a", NL, NL, "b", SP, NL, "c">>

InitTwoUsers ==
  /\ questions_file = Some(<< >>)
  /\ conversations = [u \in TwoUsers |-> [NoConversation EXCEPT !.add = QUESTION]]
  /\ user_data = [u \in TwoUsers |-> EmptyUserData]
  /\ events = 0
  /\ trail = [u \in TwoUsers |-> [NoTrail EXCEPT !.flow = "add", !.step = "entered"]]
  /\ call = NoCall
  /\ assigned = {}
  /\ users_file = None
  /\ rounds = [chat \in Chats |-> None]
  /\ tasks = [s \in Sessions |-> NoTask]

\* an update of user u: a command, a text, a selection or /cancel
UserEvent(u) ==
  \/ add_quiz(u)
  \/ get_question(u, QuestionOf(u))
  \/ get_options(u, OptionsTextOf(u))
  \/ \E i \in 0..1 : get_answer(u, Button("answer", i, 0))
  \/ cancel(u)
  \/ handle_message(u, None)

NextTwoUsers == \E u \in TwoUsers : UserEvent(u)

SpecTwoUsers == InitTwoUsers /\ [][NextTwoUsers]_vars

\* C37: sessions of different users are isolated: an event of user a never
\* changes the dialog state or the scratch of another user b, and the record
\* that b's dialog persists when it is completed holds the question text and
\* the options that b supplied.
C37_SessionsIsolated ==
  [][\A b \in TwoUsers :
       /\ \A a \in TwoUsers \ {b} :
            UserEvent(a) => /\ conversations'[b] = conversations[b]
                            /\ user_data'[b] = user_data[b]
       /\ \A i \in 0..1 :
            get_answer(b, Button("answer", i, 0)) =>
              /\ Len(QuestionsAfter) = Len(QuestionsBefore) + 1
              /\ QuestionsAfter[Len(QuestionsAfter)].question = Some(QuestionOf(b))
              /\ QuestionsAfter[Len(QuestionsAfter)].options
                   = Some(ParseOptions(OptionsTextOf(b)))
              /\ QuestionsAfter[Len(QuestionsAfter)].answer = i]_vars

\* u2 has completed its dialog and its record is stored, while u1 has
\* cancelled one dialog and is in the middle of the next with its own text
\* in scratch
C37_Witness ==
  /\ \E k \in DOMAIN StoredQuestions : StoredQuestions[k].question = Some("q2")
  /\ conversations["u2"].add = END
  /\ conversations["u1"].add = OPTIONS
  /\ user_data["u1"].quiz_question = Some("q1")
  /\ events = 5

\* u has no dialog that waits for a question text, an options text, a url,
\* a new question text or new options
NoTextDialog(u) ==
  /\ conversations[u].add \notin {QUESTION, OPTIONS}
  /\ conversations[u].clone \notin {QUESTION, OPTIONS, CLONE_URL}
  /\ conversations[u].edit \notin {EDIT_QUESTION, EDIT_OPTIONS}

\* C38: free text changes the question store only inside an active dialog:
\* a text message of a user who has no dialog waiting for a text leaves the
\* questions file and the stats file as they were.
C38_FreeTextOutsideDialogChangesNothing ==
  [][\A u \in Users :
       NoTextDialog(u) /\ TextEvent(u) =>
         /\ questions_file' = questions_file
         /\ users_file' = users_file]_vars

\* a forwarded poll was converted and its record is stored, the edit dialog
\* waits for the selection of the new answer, no dialog waits for a text,
\* and the fourth update (a free text gets the help reply here) left the
\* dialog where it was
C38_Witness ==
  /\ StoredQuestions # << >>
  /\ NoTextDialog("u1")
  /\ conversations["u1"].edit = EDIT_ANSWER
  /\ trail["u1"] = NoTrail
  /\ events = 4

\* the press of test_quiz_<id> in the menu that the conversion just sent
TestPressed(u, p) ==
  /\ p.k = "test_quiz"
  /\ trail[u].step = "converted"
  /\ p \in trail[u].menu
  /\ test_quiz_placeholder(u, p)

\* the poll of question id with its stored answer was dispatched to a chat
DispatchedAsStored(id) ==
  \E chat \in Chats :
    /\ rounds'[chat] # None
    /\ Val(rounds'[chat]).id = id
    /\ get_question_by_id(QuestionsAfter, id) # None
    /\ Val(rounds'[chat]).answer = Val(get_question_by_id(QuestionsAfter, id)).answer

\* C39: in the menu sent after a poll conversion, selecting the test action
\* dispatches the new question as an answerable poll whose correct index is
\* the stored answer of the record, and leaves the questions file as it was.
C39_TestDispatchesTheNewQuestion ==
  [][\A u \in Users, p \in Buttons :
       TestPressed(u, p) =>
         /\ DispatchedAsStored(p.a)
         /\ questions_file' = questions_file]_vars

\* the identifiers of the dialog states when main() registers the handlers
StateIds ==
  << QUESTION, OPTIONS, ANSWER, EDIT_SELECT, EDIT_QUESTION, EDIT_OPTIONS,
     EDIT_ANSWER, CLONE_URL, CLONE_MANUAL >>

\* C40: when the handlers are registered, the identifiers QUESTION, OPTIONS,
\* ANSWER, EDIT_SELECT, EDIT_QUESTION, EDIT_OPTIONS, EDIT_ANSWER, CLONE_URL
\* and CLONE_MANUAL are pairwise distinct, so that the identifier stored for
\* a dialog of any user names one dialog state.
C40_StateIdsPairwiseDistinct ==
  \A u \in DOMAIN conversations :
    \A i \in DOMAIN StateIds, j \in DOMAIN StateIds :
      i # j => StateIds[i] # StateIds[j]

====
